---------------------------- MODULE Spec2Model ----------------------------
(***************************************************************************)
(* figgypy/decrypt.py: the two decrypt passes over a parsed configuration  *)
(* tree, gpg_decrypt (local engine, markers "_gpg" and inline "BEGIN PGP") *)
(* and kms_decrypt (key service, marker "_kms").                           *)
(*                                                                         *)
(* A Python value is a record [t, v]: t is the Python type, v the payload. *)
(* A str is the sequence of its code points, bytes the sequence of its     *)
(* byte values; a list holds the sequence of its items and a dict the      *)
(* sequence of its <<key, value>> entries in insertion order.              *)
(*                                                                         *)
(* The configuration is a tree: no object sits at two positions.  So the   *)
(* heap after a call is described by the value the argument object holds   *)
(* after the call, and every recursive call returns, next to the value the *)
(* Python function returns (ret), the argument object as the call leaves   *)
(* it (obj): a dict assigned into by obj[k] = ... shows the assignment in  *)
(* obj, a list rebuilt as res_v keeps its items in obj.                    *)
(***************************************************************************)
EXTENDS Integers, Sequences, FiniteSets, TLC

\* ------------------------------------------------------------ bounds

\* Size of the configuration trees the loader hands over: a scalar and the
\* bare mapping {'_kms': 'cHc='} count 1, every other list or dict 1 plus its
\* items.
MaxSize == 4

\* Longest outcome script of a backend: call i of a pass gets the outcome at
\* position i of the script, calls beyond the script get its last one.
MaxCalls == 2

\* ------------------------------------------------------- Python values

PyStr(s) == [t |-> "str", v |-> s]

PyInt(n) == [t |-> "int", v |-> n]

PyList(items) == [t |-> "list", v |-> items]

PyDict(entries) == [t |-> "dict", v |-> entries]

\* What a call that raised returns: nothing.
NoValue == [t |-> "<raised>", v |-> 0]

\* k in obj, for a dict.
HasKey(obj, k) == \E i \in 1..Len(obj.v) : obj.v[i][1] = k

\* obj[k], for a dict holding k.
GetItem(obj, k) == obj.v[CHOOSE i \in 1..Len(obj.v) : obj.v[i][1] = k][2]

\* sub in s, for two str: s holds sub as a run of consecutive code points.
Contains(s, sub) ==
    \E i \in 0..(Len(s) - Len(sub)) :
        \A j \in 1..Len(sub) : s[i + j] = sub[j]

\* 'BEGIN PGP'
BEGIN_PGP == <<66, 69, 71, 73, 78, 32, 80, 71, 80>>

\* 'AccessDeniedException'
ACCESS_DENIED == <<65, 99, 99, 101, 115, 115, 68, 101, 110, 105, 101, 100,
                   69, 120, 99, 101, 112, 116, 105, 111, 110>>

\* InlineTest with the test text cut to 'BEGIN PG'.
InlineTest_ShortText(obj) ==
    IF obj.t = "str"
    THEN IF Contains(obj.v, SubSeq(BEGIN_PGP, 1, 8)) THEN "True" ELSE "False"
    ELSE "TypeError"

\* InlineTest with obj == 'BEGIN PGP' in place of 'BEGIN PGP' in obj.
InlineTest_Equality(obj) ==
    IF obj.t = "str" /\ obj.v = BEGIN_PGP THEN "True" ELSE "False"

\* 'BEGIN PGP' in obj: True or False for a str; for an int, a bool, a float
\* or None the operator raises TypeError.
InlineTest(obj) ==
    IF obj.t = "str"
    THEN IF Contains(obj.v, BEGIN_PGP) THEN "True" ELSE "False"
    ELSE "TypeError"

\* ---------------------------------------------------------- encodings

\* str.encode(): UTF-8, one byte below U+0080 and two below U+0800.
RECURSIVE Utf8Encode(_)
Utf8Encode(s) ==
    IF s = <<>> THEN <<>>
    ELSE LET c == Head(s)
         IN  (IF c < 128 THEN <<c>>
              ELSE <<192 + (c \div 64), 128 + (c % 64)>>)
             \o Utf8Encode(Tail(s))

\* bytes.decode('utf-8'): [ok, text]; a byte that starts no sequence or a
\* sequence cut short raises UnicodeDecodeError (ok = FALSE).
RECURSIVE Utf8Decode(_)
Utf8Decode(bs) ==
    IF bs = <<>> THEN [ok |-> TRUE, text |-> <<>>]
    ELSE LET b == Head(bs)
         IN  IF b < 128
             THEN LET r == Utf8Decode(Tail(bs))
                  IN  [ok |-> r.ok, text |-> <<b>> \o r.text]
             ELSE IF b >= 194 /\ b <= 223 /\ Len(bs) >= 2
                     /\ bs[2] >= 128 /\ bs[2] <= 191
             THEN LET r == Utf8Decode(Tail(Tail(bs)))
                  IN  [ok |-> r.ok,
                       text |-> <<(b - 192) * 64 + (bs[2] - 128)>> \o r.text]
             ELSE [ok |-> FALSE, text |-> <<>>]

\* The value of a base64 digit, 64 for a byte outside the alphabet.
B64Value(c) ==
    IF c >= 65 /\ c <= 90 THEN c - 65
    ELSE IF c >= 97 /\ c <= 122 THEN c - 71
    ELSE IF c >= 48 /\ c <= 57 THEN c + 4
    ELSE IF c = 43 THEN 62
    ELSE IF c = 47 THEN 63
    ELSE 64

\* binascii.a2b_base64, not strict: bytes outside the alphabet are skipped,
\* a complete pad ends the input, and a quad left open at the end raises
\* binascii.Error (ok = FALSE).
RECURSIVE A2B(_, _, _, _, _, _)
A2B(data, i, quad, left, pads, out) ==
    IF i > Len(data) THEN [ok |-> quad = 0, bytes |-> out]
    ELSE IF data[i] = 61
    THEN IF quad >= 2 /\ quad + pads + 1 >= 4
         THEN [ok |-> TRUE, bytes |-> out]
         ELSE A2B(data, i + 1, quad, left,
                  IF quad >= 2 THEN pads + 1 ELSE pads, out)
    ELSE LET d == B64Value(data[i])
         IN  IF d = 64 THEN A2B(data, i + 1, quad, left, pads, out)
             ELSE IF quad = 0 THEN A2B(data, i + 1, 1, d, 0, out)
             ELSE IF quad = 1
             THEN A2B(data, i + 1, 2, d % 16, 0,
                      Append(out, (left * 4 + d \div 16) % 256))
             ELSE IF quad = 2
             THEN A2B(data, i + 1, 3, d % 4, 0,
                      Append(out, (left * 16 + d \div 4) % 256))
             ELSE A2B(data, i + 1, 0, 0, 0,
                      Append(out, (left * 64 + d) % 256))

\* base64.b64decode(data)
B64Decode(data) == A2B(data, 1, 0, 0, 0, <<>>)


\* ------------------------------------------------ the run of one pass

\* What one pass has done so far: the backend calls it made, the records it
\* logged, the positions decrypt(obj) was entered at, and the exception that
\* is propagating ("none" while the pass runs normally).  A position is the
\* path from the root: the index of the item or entry taken at each level.
NewRun == [calls |-> <<>>, log |-> <<>>, visits |-> <<>>, exc |-> "none"]

Visit(e, path) == [e EXCEPT !.visits = Append(@, path)]

Log(e, level, msg, path) ==
    [e EXCEPT !.log = Append(@, [level |-> level, msg |-> msg, path |-> path])]

Call(e, path, arg, out) ==
    [e EXCEPT !.calls = Append(@, [path |-> path, arg |-> arg, out |-> out])]

Raise(e, exc) == [e EXCEPT !.exc = exc]

\* The outcome the backend gives its next call.
Outcome(b, e) ==
    LET n == Len(e.calls) + 1
    IN  b.script[IF n <= Len(b.script) THEN n ELSE Len(b.script)]

\* ---------------------------------------------------------- gpg_decrypt

\* What gnupg's decrypt can answer: a result with ok set and data that is
\* UTF-8 ("ok") or not ("baddata"), a result with ok unset, or an exception.
GpgOutcomes == {"ok", "baddata", "notok", "raise"}

\* decrypted.data: b'secret', or a byte that is no UTF-8.
GpgData(out) ==
    IF out = "ok" THEN <<115, 101, 99, 114, 101, 116>> ELSE <<255>>

\* GpgUnpack without the test of decrypted.ok: the data of a result that is
\* not ok (b'') replaces obj.
GpgUnpack_IgnoresOk(b, e, path, arg) ==
    IF ~b.bound
    THEN [new |-> NoValue, e |-> Log(e, "error", "error unpacking secrets", path)]
    ELSE LET out == Outcome(b, e)
             e1 == Call(e, path, arg, out)
         IN  IF out = "raise"
             THEN [new |-> NoValue,
                   e |-> Log(e1, "error", "error unpacking secrets", path)]
             ELSE IF out = "notok"
             THEN [new |-> PyStr(<<>>), e |-> e1]
             ELSE LET d == Utf8Decode(GpgData(out))
                  IN  IF d.ok
                      THEN [new |-> PyStr(d.text), e |-> e1]
                      ELSE [new |-> NoValue,
                            e |-> Log(e1, "error", "error unpacking secrets", path)]

\* GpgUnpack with an except clause that does not catch NameError: the
\* lookup of the unassigned gpg leaves the pass.
GpgUnpack_NameErrorEscapes(b, e, path, arg) ==
    IF ~b.bound
    THEN [new |-> NoValue, e |-> Raise(e, "NameError")]
    ELSE LET out == Outcome(b, e)
             e1 == Call(e, path, arg, out)
         IN  IF out = "raise"
             THEN [new |-> NoValue,
                   e |-> Log(e1, "error", "error unpacking secrets", path)]
             ELSE IF out = "notok"
             THEN [new |-> NoValue,
                   e |-> Log(e1, "error", "gpg error unpacking secrets", path)]
             ELSE LET d == Utf8Decode(GpgData(out))
                  IN  IF d.ok
                      THEN [new |-> PyStr(d.text), e |-> e1]
                      ELSE [new |-> NoValue,
                            e |-> Log(e1, "error", "error unpacking secrets", path)]

\* The body of the two try blocks around gpg.decrypt: the string that
\* replaces obj, or NoValue when obj stays.  With gpg never assigned (the
\* constructor raised OSError) the name lookup raises NameError, which the
\* except Exception clause catches like any other.
GpgUnpack(b, e, path, arg) ==
    IF ~b.bound
    THEN [new |-> NoValue, e |-> Log(e, "error", "error unpacking secrets", path)]
    ELSE LET out == Outcome(b, e)
             e1 == Call(e, path, arg, out)
         IN  IF out = "raise"
             THEN [new |-> NoValue,
                   e |-> Log(e1, "error", "error unpacking secrets", path)]
             ELSE IF out = "notok"
             THEN [new |-> NoValue,
                   e |-> Log(e1, "error", "gpg error unpacking secrets", path)]
             ELSE LET d == Utf8Decode(GpgData(out))
                  IN  IF d.ok
                      THEN [new |-> PyStr(d.text), e |-> e1]
                      ELSE [new |-> NoValue,
                            e |-> Log(e1, "error", "error unpacking secrets", path)]

RECURSIVE GpgDecryptObj(_, _, _, _)
RECURSIVE GpgList(_, _, _, _, _, _, _)
RECURSIVE GpgDict(_, _, _, _, _)

\* GpgList with res_v.insert(0, ...) in place of res_v.append(...).
GpgList_Prepends(items, i, res_v, kept, path, b, e) ==
    IF i > Len(items)
    THEN [ret |-> PyList(res_v), obj |-> PyList(kept), e |-> e]
    ELSE LET r == GpgDecryptObj(items[i], Append(path, i), b, e)
         IN  GpgList(items, i + 1, <<r.ret>> \o res_v,
                     [kept EXCEPT ![i] = r.obj], path, b, r.e)

\* for item in obj: res_v.append(decrypt(item)); return res_v
\* kept: the items of the list obj itself, which the loop does not assign.
GpgList(items, i, res_v, kept, path, b, e) ==
    IF i > Len(items)
    THEN [ret |-> PyList(res_v), obj |-> PyList(kept), e |-> e]
    ELSE LET r == GpgDecryptObj(items[i], Append(path, i), b, e)
         IN  GpgList(items, i + 1, Append(res_v, r.ret),
                     [kept EXCEPT ![i] = r.obj], path, b, r.e)

\* for k, v in obj.items(): obj[k] = decrypt(v)
GpgDict(entries, i, path, b, e) ==
    IF i > Len(entries)
    THEN [ret |-> PyDict(entries), obj |-> PyDict(entries), e |-> e]
    ELSE LET r == GpgDecryptObj(entries[i][2], Append(path, i), b, e)
         IN  GpgDict([entries EXCEPT ![i] = <<entries[i][1], r.ret>>],
                     i + 1, path, b, r.e)

\* decrypt(obj) of gpg_decrypt going on into the entries of a marker mapping
\* it could not decrypt.
GpgDecryptObj_EntersMarker(obj, path, b, e) ==
    LET e0 == Visit(e, path)
    IN  IF obj.t = "list"
        THEN GpgList(obj.v, 1, <<>>, obj.v, path, b, e0)
        ELSE IF obj.t = "dict"
        THEN IF HasKey(obj, "_gpg")
             THEN LET u == GpgUnpack(b, e0, path, GetItem(obj, "_gpg"))
                  IN  IF u.new = NoValue
                      THEN GpgDict(obj.v, 1, path, b, u.e)
                      ELSE [ret |-> u.new, obj |-> obj, e |-> u.e]
             ELSE GpgDict(obj.v, 1, path, b, e0)
        ELSE LET test == InlineTest(obj)
             IN  IF test = "TypeError"
                 THEN [ret |-> obj, obj |-> obj,
                       e |-> Log(e0, "debug", "Pass on decryption", path)]
                 ELSE IF test = "True"
                 THEN LET u == GpgUnpack(b, e0, path, obj)
                      IN  [ret |-> IF u.new = NoValue THEN obj ELSE u.new,
                           obj |-> obj, e |-> u.e]
                 ELSE [ret |-> obj, obj |-> obj, e |-> e0]

\* The inner function decrypt(obj) of gpg_decrypt.
GpgDecryptObj(obj, path, b, e) ==
    LET e0 == Visit(e, path)
    IN  IF obj.t = "list"
        THEN GpgList(obj.v, 1, <<>>, obj.v, path, b, e0)
        ELSE IF obj.t = "dict"
        THEN IF HasKey(obj, "_gpg")
             THEN LET u == GpgUnpack(b, e0, path, GetItem(obj, "_gpg"))
                  IN  [ret |-> IF u.new = NoValue THEN obj ELSE u.new,
                       obj |-> obj, e |-> u.e]
             ELSE GpgDict(obj.v, 1, path, b, e0)
        ELSE LET test == InlineTest(obj)
             IN  IF test = "TypeError"
                 THEN [ret |-> obj, obj |-> obj,
                       e |-> Log(e0, "debug", "Pass on decryption", path)]
                 ELSE IF test = "True"
                 THEN LET u == GpgUnpack(b, e0, path, obj)
                      IN  [ret |-> IF u.new = NoValue THEN obj ELSE u.new,
                           obj |-> obj, e |-> u.e]
                 ELSE [ret |-> obj, obj |-> obj, e |-> e0]

\* gpg_decrypt(cfg, gpg_config) in an environment env: whether gnupg was
\* importable, what gnupg.GPG(**gpg_config) did, and the engine's script.
GpgDecryptCfg(cfg, env) ==
    IF env.imported
    THEN IF env.construct = "OSError"
         THEN GpgDecryptObj(cfg, <<>>, [bound |-> FALSE, script |-> env.script],
                  Log(NewRun, "error", "Failed to configure gpg", <<>>))
         ELSE GpgDecryptObj(cfg, <<>>, [bound |-> TRUE, script |-> env.script],
                  NewRun)
    ELSE [ret |-> cfg, obj |-> cfg, e |-> NewRun]

\* ---------------------------------------------------------- kms_decrypt

\* What client.decrypt can answer: a response with the plaintext, or a
\* ClientError carrying the error code the service reported.
KmsOutcomes == {"ok", "AccessDeniedException", "InvalidCiphertextException"}

\* res['Plaintext']: b'hunter2'
KmsPlaintext == <<104, 117, 110, 116, 101, 114, 50>>

\* 'InvalidCiphertextException'
INVALID_CIPHERTEXT == <<73, 110, 118, 97, 108, 105, 100, 67, 105, 112, 104,
                        101, 114, 116, 101, 120, 116, 69, 120, 99, 101, 112,
                        116, 105, 111, 110>>

\* err.args[0] of the ClientError for an outcome: botocore's message names
\* the error code in parentheses.
ClientErrorArgs0(out) ==
    <<40>> \o (IF out = "AccessDeniedException" THEN ACCESS_DENIED
               ELSE INVALID_CIPHERTEXT) \o <<41>>

\* KmsUnpack handing the service the encoded value without base64.b64decode.
KmsUnpack_NoBase64(b, e, path, obj) ==
    LET val == GetItem(obj, "_kms")
    IN  IF val.t # "str" THEN [new |-> NoValue, e |-> Raise(e, "AttributeError")]
        ELSE LET blob == [ok |-> TRUE, bytes |-> Utf8Encode(val.v)]
             IN  IF ~blob.ok
                 THEN [new |-> NoValue, e |-> Raise(e, "binascii.Error")]
                 ELSE LET out == Outcome(b, e)
                          e1 == Call(e, path, [t |-> "bytes", v |-> blob.bytes], out)
                      IN  IF out = "ok"
                          THEN LET d == Utf8Decode(KmsPlaintext)
                               IN  IF d.ok
                                   THEN [new |-> PyStr(d.text), e |-> e1]
                                   ELSE [new |-> NoValue,
                                         e |-> Raise(e1, "UnicodeDecodeError")]
                          ELSE IF Contains(ClientErrorArgs0(out), ACCESS_DENIED)
                          THEN [new |-> NoValue,
                                e |-> Log(e1, "warning", "Unable to decrypt", path)]
                          ELSE [new |-> NoValue, e |-> Raise(e1, "FiggypyError")]

\* KmsUnpack raising FiggypyError for every ClientError.
KmsUnpack_DeniedRaises(b, e, path, obj) ==
    LET val == GetItem(obj, "_kms")
    IN  IF val.t # "str" THEN [new |-> NoValue, e |-> Raise(e, "AttributeError")]
        ELSE LET blob == B64Decode(Utf8Encode(val.v))
             IN  IF ~blob.ok
                 THEN [new |-> NoValue, e |-> Raise(e, "binascii.Error")]
                 ELSE LET out == Outcome(b, e)
                          e1 == Call(e, path, [t |-> "bytes", v |-> blob.bytes], out)
                      IN  IF out = "ok"
                          THEN LET d == Utf8Decode(KmsPlaintext)
                               IN  IF d.ok
                                   THEN [new |-> PyStr(d.text), e |-> e1]
                                   ELSE [new |-> NoValue,
                                         e |-> Raise(e1, "UnicodeDecodeError")]
                          ELSE IF Contains(ClientErrorArgs0(out), ACCESS_DENIED)
                          THEN [new |-> NoValue, e |-> Raise(e1, "FiggypyError")]
                          ELSE [new |-> NoValue, e |-> Raise(e1, "FiggypyError")]

\* KmsUnpack logging the warning for every ClientError.
KmsUnpack_AllWarned(b, e, path, obj) ==
    LET val == GetItem(obj, "_kms")
    IN  IF val.t # "str" THEN [new |-> NoValue, e |-> Raise(e, "AttributeError")]
        ELSE LET blob == B64Decode(Utf8Encode(val.v))
             IN  IF ~blob.ok
                 THEN [new |-> NoValue, e |-> Raise(e, "binascii.Error")]
                 ELSE LET out == Outcome(b, e)
                          e1 == Call(e, path, [t |-> "bytes", v |-> blob.bytes], out)
                      IN  IF out = "ok"
                          THEN LET d == Utf8Decode(KmsPlaintext)
                               IN  IF d.ok
                                   THEN [new |-> PyStr(d.text), e |-> e1]
                                   ELSE [new |-> NoValue,
                                         e |-> Raise(e1, "UnicodeDecodeError")]
                          ELSE IF Contains(ClientErrorArgs0(out), ACCESS_DENIED)
                          THEN [new |-> NoValue,
                                e |-> Log(e1, "warning", "Unable to decrypt", path)]
                          ELSE [new |-> NoValue,
                                e |-> Log(e1, "warning", "Unable to decrypt", path)]

\* The try block of the '_kms' branch: the string that replaces obj, or
\* NoValue when obj stays; e.exc names what the block lets through.  Only
\* ClientError is caught: AttributeError (a value without encode),
\* binascii.Error and UnicodeDecodeError propagate as they are.
KmsUnpack(b, e, path, obj) ==
    LET val == GetItem(obj, "_kms")
    IN  IF val.t # "str" THEN [new |-> NoValue, e |-> Raise(e, "AttributeError")]
        ELSE LET blob == B64Decode(Utf8Encode(val.v))
             IN  IF ~blob.ok
                 THEN [new |-> NoValue, e |-> Raise(e, "binascii.Error")]
                 ELSE LET out == Outcome(b, e)
                          e1 == Call(e, path, [t |-> "bytes", v |-> blob.bytes], out)
                      IN  IF out = "ok"
                          THEN LET d == Utf8Decode(KmsPlaintext)
                               IN  IF d.ok
                                   THEN [new |-> PyStr(d.text), e |-> e1]
                                   ELSE [new |-> NoValue,
                                         e |-> Raise(e1, "UnicodeDecodeError")]
                          ELSE IF Contains(ClientErrorArgs0(out), ACCESS_DENIED)
                          THEN [new |-> NoValue,
                                e |-> Log(e1, "warning", "Unable to decrypt", path)]
                          ELSE [new |-> NoValue, e |-> Raise(e1, "FiggypyError")]

RECURSIVE KmsDecryptObj(_, _, _, _)
RECURSIVE KmsList(_, _, _, _, _, _, _)
RECURSIVE KmsDict(_, _, _, _, _)

\* for item in obj: res_v.append(decrypt(item)); return res_v
\* An exception leaves the loop: res_v is dropped, the list obj keeps its
\* items, item i as its own call left it.
KmsList(items, i, res_v, kept, path, b, e) ==
    IF i > Len(items)
    THEN [ret |-> PyList(res_v), obj |-> PyList(kept), e |-> e]
    ELSE LET r == KmsDecryptObj(items[i], Append(path, i), b, e)
         IN  IF r.e.exc # "none"
             THEN [ret |-> NoValue, obj |-> PyList([kept EXCEPT ![i] = r.obj]),
                   e |-> r.e]
             ELSE KmsList(items, i + 1, Append(res_v, r.ret),
                          [kept EXCEPT ![i] = r.obj], path, b, r.e)

\* for k, v in obj.items(): obj[k] = decrypt(v)
\* An exception leaves the loop before the assignment: key k keeps the
\* object v, as its own call left it.
KmsDict(entries, i, path, b, e) ==
    IF i > Len(entries)
    THEN [ret |-> PyDict(entries), obj |-> PyDict(entries), e |-> e]
    ELSE LET r == KmsDecryptObj(entries[i][2], Append(path, i), b, e)
         IN  IF r.e.exc # "none"
             THEN [ret |-> NoValue,
                   obj |-> PyDict([entries EXCEPT ![i] = <<entries[i][1], r.obj>>]),
                   e |-> r.e]
             ELSE KmsDict([entries EXCEPT ![i] = <<entries[i][1], r.ret>>],
                          i + 1, path, b, r.e)

\* decrypt(obj) of kms_decrypt working on a copy of a mapping: an exception
\* leaves the caller's mapping as it was.
KmsDecryptObj_Copies(obj, path, b, e) ==
    LET e0 == Visit(e, path)
    IN  IF obj.t = "list"
        THEN KmsList(obj.v, 1, <<>>, obj.v, path, b, e0)
        ELSE IF obj.t = "dict"
        THEN IF HasKey(obj, "_kms")
             THEN LET u == KmsUnpack(b, e0, path, obj)
                  IN  [ret |-> IF u.e.exc # "none" THEN NoValue
                               ELSE IF u.new = NoValue THEN obj ELSE u.new,
                       obj |-> obj, e |-> u.e]
             ELSE LET r == KmsDict(obj.v, 1, path, b, e0)
                  IN  IF r.e.exc # "none" THEN [r EXCEPT !.obj = obj] ELSE r
        ELSE [ret |-> obj, obj |-> obj, e |-> e0]

\* The inner function decrypt(obj) of kms_decrypt.
KmsDecryptObj(obj, path, b, e) ==
    LET e0 == Visit(e, path)
    IN  IF obj.t = "list"
        THEN KmsList(obj.v, 1, <<>>, obj.v, path, b, e0)
        ELSE IF obj.t = "dict"
        THEN IF HasKey(obj, "_kms")
             THEN LET u == KmsUnpack(b, e0, path, obj)
                  IN  [ret |-> IF u.e.exc # "none" THEN NoValue
                               ELSE IF u.new = NoValue THEN obj ELSE u.new,
                       obj |-> obj, e |-> u.e]
             ELSE KmsDict(obj.v, 1, path, b, e0)
        ELSE [ret |-> obj, obj |-> obj, e |-> e0]

\* kms_decrypt(cfg, aws_config), aws_config a mapping, in an environment
\* env: what the session and client construction did, and the service's
\* script.
KmsDecryptCfg(cfg, env) ==
    IF env.construct = "NoRegionError"
    THEN [ret |-> cfg, obj |-> cfg,
          e |-> Log(NewRun, "info", "Missing or invalid aws configuration", <<>>)]
    ELSE KmsDecryptObj(cfg, <<>>, [script |-> env.script], NewRun)

\* ------------------------------------------- the configurations loaded

\* 'BEGIN PG': a string without the inline marker.
Plain == PyStr(<<66, 69, 71, 73, 78, 32, 80, 71>>)

\* '-BEGIN PGP-': a string holding the inline marker.
Armored == PyStr(<<45, 66, 69, 71, 73, 78, 32, 80, 71, 80, 45>>)

\* 'cHc=': base64 of b'pw'.
KmsCipher == PyStr(<<99, 72, 99, 61>>)

\* {'_kms': 'cHc='}
KmsMarker == PyDict(<< <<"_kms", KmsCipher>> >>)

Atoms == {Plain, Armored, PyInt(7), KmsMarker}

\* The key of entry i of a dict that is not a reserved key.
PlainKeys == <<"a", "b", "c", "d", "e", "f">>

\* The key rows of a dict of j entries: each entry has its plain key or a
\* reserved key, no key twice.
KeyRows(j) ==
    { [i \in 1..j |-> IF ks[i] = "plain" THEN PlainKeys[i] ELSE ks[i]] :
        ks \in { f \in [1..j -> {"plain", "_gpg", "_kms"}] :
                   \A i1, i2 \in 1..j :
                       (i1 # i2 /\ f[i1] = f[i2]) => f[i1] = "plain" } }

\* The union of the first i sets of a sequence of sets.
RECURSIVE Join(_, _)
Join(sets, i) ==
    IF i = 0 THEN {}
    ELSE LET head == sets[i]
             rest == Join(sets, i - 1)
         IN  IF Cardinality(head) = 0 THEN rest
             ELSE IF Cardinality(rest) = 0 THEN head
             ELSE head \cup rest

\* The rows of j trees of total size n, table[k] being the trees of size k.
RECURSIVE Forests(_, _, _)
Forests(table, n, j) ==
    IF j = 0 THEN (IF n = 0 THEN {<<>>} ELSE {})
    ELSE Join([k \in 1..(n - j + 1) |->
                 LET rest == Forests(table, n - k, j - 1)
                 IN  IF Cardinality(rest) = 0 THEN {}
                     ELSE { <<t>> \o f : t \in table[k], f \in rest }],
              n - j + 1)

\* The container around a row of trees: a list for the empty key row, a
\* dict otherwise.
Around(ks, f) ==
    IF ks = <<>> THEN PyList(f)
    ELSE PyDict([i \in 1..Len(f) |-> <<ks[i], f[i]>>])

\* The trees one larger than the largest of the table: a list or a dict
\* around a row of trees.
NextTrees(table) ==
    Join([j \in 1..Len(table) |->
            { Around(ks, f) : ks \in {<<>>} \cup KeyRows(j),
                              f \in Forests(table, Len(table), j) }],
         Len(table))

\* The trees of size 1 to MaxSize, by size.
RECURSIVE Trees(_)
Trees(table) ==
    IF Len(table) >= MaxSize THEN table
    ELSE Trees(Append(table, NextTrees(table)))

Configs == Join(Trees(<<Atoms>>), MaxSize)

\* ------------------------------------------- positions in a tree

\* The positions of a tree: the root <<>> and, below a list or a dict, the
\* index of an item or entry followed by a position of its value.
RECURSIVE Nodes(_)
Nodes(n) ==
    {<<>>} \cup
    (IF n.t = "list"
     THEN UNION { { <<i>> \o q : q \in Nodes(n.v[i]) } : i \in 1..Len(n.v) }
     ELSE IF n.t = "dict"
     THEN UNION { { <<i>> \o q : q \in Nodes(n.v[i][2]) } : i \in 1..Len(n.v) }
     ELSE {})

\* The value at position p of tree n, NoValue where n has no such position.
RECURSIVE At(_, _)
At(n, p) ==
    IF p = <<>> THEN n
    ELSE IF n.t = "list" /\ Head(p) <= Len(n.v)
    THEN At(n.v[Head(p)], Tail(p))
    ELSE IF n.t = "dict" /\ Head(p) <= Len(n.v)
    THEN At(n.v[Head(p)][2], Tail(p))
    ELSE NoValue

IsScalar(n) == n.t \notin {"list", "dict"}

IsMarker(n, key) == n.t = "dict" /\ HasKey(n, key)

\* Position q lies inside a marker mapping of tree n: below a mapping that
\* holds the reserved key.
InsideMarker(n, q, key) ==
    \E k \in 0..(Len(q) - 1) : IsMarker(At(n, SubSeq(q, 1, k)), key)

\* The parent of position q is a marker mapping.
ParentIsMarker(n, q, key) ==
    q # <<>> /\ IsMarker(At(n, SubSeq(q, 1, Len(q) - 1)), key)

\* The marker mappings of tree n that lie inside no other marker mapping.
OuterMarkers(n, key) ==
    { q \in Nodes(n) : IsMarker(At(n, q), key) /\ ~InsideMarker(n, q, key) }

IsPrefix(p, q) == Len(p) <= Len(q) /\ SubSeq(q, 1, Len(p)) = p

\* p comes before q in depth-first order (a node before what it holds).
Before(p, q) ==
    /\ p # q
    /\ \/ IsPrefix(p, q)
       \/ \E i \in 1..Len(p) :
              /\ i <= Len(q)
              /\ p[i] < q[i]
              /\ \A j \in 1..(i - 1) : p[j] = q[j]

\* The positions the traversal of tree n comes to: those inside no marker
\* mapping.
Reached(n, key) == { q \in Nodes(n) : ~InsideMarker(n, q, key) }

\* The positions a gpg pass hands to the engine: marker mappings and inline
\* ciphertext strings, inside no marker mapping.
GpgSites(n) ==
    { q \in Reached(n, "_gpg") :
        \/ IsMarker(At(n, q), "_gpg")
        \/ At(n, q).t = "str" /\ Contains(At(n, q).v, BEGIN_PGP) }

\* -------------------------------------------------------------- state

VARIABLES
    input,      \* the configuration as the loader built it
    cfg,        \* the caller's configuration object, as the pass left it
    ret,        \* what the pass returned, NoValue if it raised
    raised,     \* the exception the pass raised to the caller, or "none"
    calls,      \* the backend calls of the pass, in order
    log,        \* the records the pass logged, in order
    visits,     \* the positions decrypt(obj) was entered at, in order
    pass,       \* "none" before the pass, then "gpg" or "kms"
    env         \* the environment the pass ran in

vars == <<input, cfg, ret, raised, calls, log, visits, pass, env>>

NoEnv == [imported |-> FALSE, construct |-> "none", script |-> <<>>]

\* The scripts for a pass with n places to call the backend at: one outcome
\* per call, at least one and at most MaxCalls.
Scripts(n, outcomes) ==
    [1..(IF n < 1 THEN 1 ELSE IF n > MaxCalls THEN MaxCalls ELSE n) -> outcomes]

\* GPG_IMPORTED unset; gnupg.GPG(...) raising OSError; an engine with a script.
GpgEnvs(tree) ==
    {NoEnv}
    \cup {[NoEnv EXCEPT !.imported = TRUE, !.construct = "OSError"]}
    \cup {[NoEnv EXCEPT !.imported = TRUE, !.construct = "ok", !.script = s] :
            s \in Scripts(Cardinality(GpgSites(tree)), GpgOutcomes)}

\* The session or client raising NoRegionError; a client with a script.
KmsEnvs(tree) ==
    {[NoEnv EXCEPT !.construct = "NoRegionError"]}
    \cup {[NoEnv EXCEPT !.construct = "ok", !.script = s] :
            s \in Scripts(Cardinality(OuterMarkers(tree, "_kms")), KmsOutcomes)}

Init ==
    /\ input \in Configs
    /\ cfg = input
    /\ ret = NoValue
    /\ raised = "none"
    /\ calls = <<>>
    /\ log = <<>>
    /\ visits = <<>>
    /\ pass = "none"
    /\ env = NoEnv

\* The record r of a finished pass becomes the state.
Finish(r, p, en) ==
    /\ cfg' = r.obj
    /\ ret' = r.ret
    /\ raised' = r.e.exc
    /\ calls' = r.e.calls
    /\ log' = r.e.log
    /\ visits' = r.e.visits
    /\ pass' = p
    /\ env' = en
    /\ UNCHANGED input

\* The caller runs gpg_decrypt(cfg) in some environment.
GpgDecrypt ==
    /\ pass = "none"
    /\ \E en \in GpgEnvs(cfg) : Finish(GpgDecryptCfg(cfg, en), "gpg", en)

\* The caller runs kms_decrypt(cfg, aws_config) in some environment.
KmsDecrypt ==
    /\ pass = "none"
    /\ \E en \in KmsEnvs(cfg) : Finish(KmsDecryptCfg(cfg, en), "kms", en)

Next == GpgDecrypt \/ KmsDecrypt

Spec == Init /\ [][Next]_vars

\* ------------------------------------------- the positions of a pass

\* The reserved key of the pass that ran.
ReservedKey == IF pass = "gpg" THEN "_gpg" ELSE "_kms"

CallsAt(p) == { k \in 1..Len(calls) : calls[k].path = p }

VisitsAt(p) == { k \in 1..Len(visits) : visits[k] = p }

LogsAt(level, p) ==
    { k \in 1..Len(log) : log[k].level = level /\ log[k].path = p }

\* The pass constructed its backend, and the inner decrypt ran with it.
Constructed == pass # "none" /\ env.construct = "ok"

\* 'secret', the text of the engine's data, and 'hunter2', the text of the
\* service's plaintext.
SECRET == PyStr(<<115, 101, 99, 114, 101, 116>>)

HUNTER2 == PyStr(<<104, 117, 110, 116, 101, 114, 50>>)

PlaintextOf == IF pass = "gpg" THEN SECRET ELSE HUNTER2

\* ------------------------------------------------------------------ C1

\* No mapping of the tree has a reserved key and no string holds 'BEGIN PGP'.
RECURSIVE MarkerFree(_)
MarkerFree(n) ==
    IF n.t = "list" THEN \A i \in 1..Len(n.v) : MarkerFree(n.v[i])
    ELSE IF n.t = "dict"
    THEN /\ ~HasKey(n, "_gpg")
         /\ ~HasKey(n, "_kms")
         /\ \A i \in 1..Len(n.v) : MarkerFree(n.v[i][2])
    ELSE n.t = "str" => ~Contains(n.v, BEGIN_PGP)

\* C1 (identity): on a tree in which no mapping has the key "_gpg" or "_kms"
\* and no string holds "BEGIN PGP", a gpg_decrypt pass and a kms_decrypt pass
\* each return a tree equal to the input and never call the backend's decrypt.
C1_Identity ==
    (pass # "none" /\ MarkerFree(input)) =>
        /\ raised = "none"
        /\ ret = input
        /\ calls = <<>>

\* A pass with a constructed backend over a marker-free dict that holds a
\* list and a string without the inline marker.
C1_Witness ==
    /\ Constructed
    /\ MarkerFree(input)
    /\ input.t = "dict"
    /\ \E i \in 1..Len(input.v) : input.v[i][2].t = "list"
    /\ \E q \in Nodes(input) : At(input, q) = Plain
    /\ ret = input

\* ------------------------------------------------------------------ C2

\* b'pw' and the six bytes base64 reads out of '-BEGIN PGP-' (the digits
\* BEGINPGP; '-' and ' ' are outside the alphabet).
ExpectedBlob(val) ==
    IF val = KmsCipher THEN <<112, 119>>
    ELSE IF val = Armored THEN <<4, 65, 136, 52, 241, 143>>
    ELSE <<>>

\* What the backend is handed for a marker mapping n: the "_gpg" value as it
\* is, the "_kms" value base64-decoded.
ExpectedArg(n) ==
    IF pass = "gpg" THEN GetItem(n, "_gpg")
    ELSE [t |-> "bytes", v |-> ExpectedBlob(GetItem(n, "_kms"))]

\* C2 (marker collapse): in a pass that returns, every mapping that holds the
\* backend's reserved key (inside no other such mapping) is handed to the
\* backend once, "_gpg" values as they are and "_kms" values base64-decoded,
\* and where the decryption succeeds the result holds, at the mapping's
\* position in its parent or as the root, the plaintext string alone: the
\* sibling keys are gone.
C2_MarkerCollapse ==
    (Constructed /\ raised = "none") =>
        /\ \A q \in OuterMarkers(input, ReservedKey) : Cardinality(CallsAt(q)) = 1
        /\ \A k \in 1..Len(calls) :
               LET n == At(input, calls[k].path)
               IN  IsMarker(n, ReservedKey) =>
                       /\ calls[k].arg = ExpectedArg(n)
                       /\ calls[k].out = "ok" => At(ret, calls[k].path) = PlaintextOf

\* A kms pass that collapsed a marker mapping with a sibling key, inside a
\* parent mapping.
C2_Witness ==
    /\ pass = "kms"
    /\ raised = "none"
    /\ \E k \in 1..Len(calls) :
           LET q == calls[k].path
           IN  /\ q # <<>>
               /\ calls[k].out = "ok"
               /\ IsMarker(At(input, q), "_kms")
               /\ Len(At(input, q).v) = 2
               /\ At(input, SubSeq(q, 1, Len(q) - 1)).t = "dict"
               /\ At(ret, q) = HUNTER2

\* ------------------------------------------------------------------ C6

\* The backend could not be constructed: gnupg not importable, gnupg.GPG
\* raising OSError, or the boto session raising NoRegionError.
Unavailable ==
    \/ pass = "gpg" /\ (~env.imported \/ env.construct = "OSError")
    \/ pass = "kms" /\ env.construct = "NoRegionError"

\* C6 (unavailable backend): if the backend cannot be constructed, the pass
\* returns a tree equal to the input, for every input tree, and no exception
\* reaches the caller.
C6_UnavailableIdentity ==
    Unavailable => (ret = input /\ raised = "none")

\* gnupg.GPG raised OSError and the tree holds a "_gpg" marker mapping and an
\* inline ciphertext string outside it.
C6_Witness ==
    /\ pass = "gpg"
    /\ env.construct = "OSError"
    /\ OuterMarkers(input, "_gpg") # {}
    /\ \E q \in Nodes(input) :
           At(input, q) = Armored /\ ~InsideMarker(input, q, "_gpg")
    /\ ret = input

\* ------------------------------------------------------------------ C8

\* b is a after a pass, shape for shape: a list has the same length, item by
\* item; a mapping without the reserved key has the same keys in the same
\* order, value by value; a marker mapping is kept whole or is the plaintext
\* string; a scalar is kept or, an inline ciphertext of a gpg pass, is the
\* plaintext string.
RECURSIVE SameTopology(_, _)
SameTopology(a, b) ==
    IF a.t = "list"
    THEN /\ b.t = "list"
         /\ Len(b.v) = Len(a.v)
         /\ \A i \in 1..Len(a.v) : SameTopology(a.v[i], b.v[i])
    ELSE IF a.t = "dict" /\ ~HasKey(a, ReservedKey)
    THEN /\ b.t = "dict"
         /\ Len(b.v) = Len(a.v)
         /\ \A i \in 1..Len(a.v) :
                /\ b.v[i][1] = a.v[i][1]
                /\ SameTopology(a.v[i][2], b.v[i][2])
    ELSE IF a.t = "dict"
    THEN b = a \/ b = PlaintextOf
    ELSE \/ b = a
         \/ pass = "gpg" /\ a.t = "str" /\ Contains(a.v, BEGIN_PGP) /\ b = SECRET

\* C8 (topology): after a pass that returns, the result differs from the
\* input only at collapsed marker mappings and resolved inline strings: every
\* list has its length and order, every other mapping its keys in order.
C8_Topology ==
    (pass # "none" /\ raised = "none") => SameTopology(input, ret)

\* A pass changed the tree below a mapping and a list of two items.
C8_Witness ==
    /\ Constructed
    /\ raised = "none"
    /\ ret # input
    /\ \E q \in Nodes(input) : At(input, q).t = "list" /\ Len(At(input, q).v) = 2
    /\ \E q \in Nodes(input) :
           At(input, q).t = "dict" /\ ~HasKey(At(input, q), ReservedKey)

\* ------------------------------------------------------------------ C3

\* C3 (access denied): when the service answers a "_kms" marker mapping with
\* an access-denied error, the mapping stays as it was, keys and siblings,
\* one warning is logged for it, the denial raises nothing, and the traversal
\* goes on: the next position is entered, and a pass that returns has handed
\* every marker mapping to the service.
C3_AccessDenied ==
    pass = "kms" =>
        \A k \in 1..Len(calls) :
            LET q == calls[k].path
            IN  calls[k].out = "AccessDeniedException" =>
                    /\ At(cfg, q) = At(input, q)
                    /\ raised = "none" => At(ret, q) = At(input, q)
                    /\ Cardinality(LogsAt("warning", q)) = 1
                    /\ k = Len(calls) => raised # "FiggypyError"
                    /\ (\E r \in Reached(input, "_kms") : Before(q, r)) =>
                           \E r \in Reached(input, "_kms") :
                               Before(q, r) /\ VisitsAt(r) # {}
                    /\ raised = "none" =>
                           \A r \in OuterMarkers(input, "_kms") :
                               Cardinality(CallsAt(r)) = 1

\* A denied marker mapping, followed by a marker mapping the service
\* decrypted.
C3_Witness ==
    /\ pass = "kms"
    /\ raised = "none"
    /\ Len(calls) = 2
    /\ calls[1].out = "AccessDeniedException"
    /\ Cardinality(LogsAt("warning", calls[1].path)) = 1
    /\ At(ret, calls[1].path) = At(input, calls[1].path)
    /\ calls[2].out = "ok"
    /\ At(ret, calls[2].path) = HUNTER2

\* ------------------------------------------------------------------ C4

\* C4 (hard failure): when the service answers a "_kms" marker mapping with
\* any other error, the pass ends there with FiggypyError: the call is the
\* last one, the marker mapping the last position entered, and the marker
\* mapping and every position after it in depth-first order hold what they
\* held.
C4_HardFailure ==
    pass = "kms" =>
        \A k \in 1..Len(calls) :
            LET q == calls[k].path
            IN  calls[k].out = "InvalidCiphertextException" =>
                    /\ raised = "FiggypyError"
                    /\ ret = NoValue
                    /\ k = Len(calls)
                    /\ visits[Len(visits)] = q
                    /\ \A r \in Nodes(input) :
                           ~Before(r, q) => At(cfg, r) = At(input, r)

\* A pass that decrypted one marker mapping, failed on the next and left a
\* third one unvisited.
C4_Witness ==
    /\ pass = "kms"
    /\ raised = "FiggypyError"
    /\ Len(calls) = 2
    /\ calls[1].out = "ok"
    /\ \E r \in OuterMarkers(input, "_kms") :
           Before(calls[2].path, r) /\ VisitsAt(r) = {}

\* ------------------------------------------------------------------ C5

\* C5 (engine failure): in a gpg pass no exception reaches the caller; a
\* "_gpg" marker mapping or inline string whose decryption fails (result not
\* ok, or an exception in the call or in decoding the data) is in the result
\* as it was in the input, one error is logged for it, and the traversal
\* goes on: every marker mapping and inline string is handed to the engine
\* once.
C5_EngineFailure ==
    pass = "gpg" =>
        /\ raised = "none"
        /\ Constructed =>
               /\ \A q \in GpgSites(input) : Cardinality(CallsAt(q)) = 1
               /\ \A k \in 1..Len(calls) :
                      calls[k].out # "ok" =>
                          /\ At(ret, calls[k].path) = At(input, calls[k].path)
                          /\ Cardinality(LogsAt("error", calls[k].path)) = 1

\* A marker mapping whose decryption failed, followed by an inline string
\* the engine decrypted.
C5_Witness ==
    /\ pass = "gpg"
    /\ Len(calls) = 2
    /\ calls[1].out \in {"notok", "raise", "baddata"}
    /\ IsMarker(At(input, calls[1].path), "_gpg")
    /\ At(ret, calls[1].path) = At(input, calls[1].path)
    /\ calls[2].out = "ok"
    /\ At(input, calls[2].path) = Armored
    /\ At(ret, calls[2].path) = SECRET

\* ------------------------------------------------------------------ C7

\* What C7 says of the scalar at position q of the input, in a gpg pass with
\* its engine constructed: a string holding 'BEGIN PGP' is handed whole to
\* the engine, once, and on success the result holds the plaintext at q; any
\* other scalar is in the result as it was and the engine is not called.
InlineRule(q) ==
    LET n == At(input, q)
    IN  IF n.t = "str" /\ Contains(n.v, BEGIN_PGP)
        THEN /\ Cardinality(CallsAt(q)) = 1
             /\ \A k \in CallsAt(q) :
                    /\ calls[k].arg = n
                    /\ calls[k].out = "ok" => At(ret, q) = SECRET
        ELSE /\ CallsAt(q) = {}
             /\ At(ret, q) = n

\* C7 as stated (inline detection), read in the claim's favour: the pass does
\* not raise, every string holding 'BEGIN PGP' that is not the value of a key
\* of a "_gpg" marker mapping is handed whole to the engine, once, and on
\* success the result holds the plaintext at its position; no other scalar
\* is handed to the engine.
C7_AsStated ==
    (pass = "gpg" /\ Constructed) =>
        /\ raised = "none"
        /\ \A q \in Nodes(input) :
               LET n == At(input, q)
               IN  IsScalar(n) =>
                       IF n.t = "str" /\ Contains(n.v, BEGIN_PGP)
                       THEN ~ParentIsMarker(input, q, "_gpg") => InlineRule(q)
                       ELSE CallsAt(q) = {}

\* C7 as amended: the rule holds of every scalar that lies inside no "_gpg"
\* marker mapping; a scalar inside one, at any depth, is never handed to the
\* engine on its own; the pass does not raise.
C7_InlineDetection ==
    (pass = "gpg" /\ Constructed) =>
        /\ raised = "none"
        /\ \A q \in Nodes(input) :
               IsScalar(At(input, q)) =>
                   IF InsideMarker(input, q, "_gpg")
                   THEN CallsAt(q) = {}
                   ELSE InlineRule(q)

\* An inline string the engine decrypted in place, next to an int, and an
\* inline string below a sibling key of a marker mapping.
C7_Witness ==
    /\ pass = "gpg"
    /\ Constructed
    /\ \E q \in Nodes(input) :
           /\ At(input, q) = Armored
           /\ ~InsideMarker(input, q, "_gpg")
           /\ At(ret, q) = SECRET
    /\ \E q \in Nodes(input) : At(input, q) = PyInt(7) /\ At(ret, q) = PyInt(7)

\* An inline string two levels below a marker mapping, which the engine is
\* never handed.
C7_WitnessInside ==
    /\ pass = "gpg"
    /\ Constructed
    /\ \E q \in Nodes(input) :
           /\ At(input, q) = Armored
           /\ InsideMarker(input, q, "_gpg")
           /\ ~ParentIsMarker(input, q, "_gpg")

\* ------------------------------------------------------------------ C9

\* The inner decrypt ran over the tree.
Traversed ==
    \/ pass = "gpg" /\ env.imported
    \/ pass = "kms" /\ env.construct = "ok"

\* C9 as stated (visit once): in a pass that returns, decrypt is entered
\* once at every position of the input tree.
C9_AsStated ==
    (Constructed /\ raised = "none") =>
        \A q \in Nodes(input) : Cardinality(VisitsAt(q)) = 1

\* C9 as amended: in a pass that returns, decrypt is entered once at every
\* position inside no marker mapping of the pass's backend and never at a
\* position inside one (the marker's value, its sibling values and what they
\* hold); the backend's decrypt is called at most once per position.
C9_VisitOnce ==
    (Traversed /\ raised = "none") =>
        /\ \A q \in Nodes(input) :
               Cardinality(VisitsAt(q)) =
                   IF InsideMarker(input, q, ReservedKey) THEN 0 ELSE 1
        /\ Len(visits) = Cardinality(Reached(input, ReservedKey))
        /\ \A k \in 1..Len(calls) :
               /\ calls[k].path \in Nodes(input)
               /\ Cardinality(CallsAt(calls[k].path)) = 1

\* A pass over a tree with a marker mapping that has a sibling key, and
\* positions outside it.
C9_Witness ==
    /\ Traversed
    /\ raised = "none"
    /\ Len(visits) >= 2
    /\ \E q \in OuterMarkers(input, ReservedKey) :
           q # <<>> /\ Len(At(input, q).v) = 2 /\ Cardinality(CallsAt(q)) = 1

\* ----------------------------------------------------------------- C10

\* What decrypt returns for the value n at position r, read off the calls of
\* the pass: a marker mapping the service decrypted is the plaintext, any
\* other marker mapping and any scalar is kept, lists and other mappings are
\* transformed value by value.
RECURSIVE Transformed(_, _)
Transformed(n, r) ==
    IF n.t = "list"
    THEN PyList([i \in 1..Len(n.v) |-> Transformed(n.v[i], Append(r, i))])
    ELSE IF IsMarker(n, "_kms")
    THEN IF \E k \in CallsAt(r) : calls[k].out = "ok" THEN HUNTER2 ELSE n
    ELSE IF n.t = "dict"
    THEN PyDict([i \in 1..Len(n.v) |->
                    <<n.v[i][1], Transformed(n.v[i][2], Append(r, i))>>])
    ELSE n

\* Position r is the value of a key of a mapping.
IsKeyValue(n, r) ==
    r # <<>> /\ At(n, SubSeq(r, 1, Len(r) - 1)).t = "dict"

\* C10 (no rollback): when a kms pass ends with FiggypyError, in the
\* caller's tree every mapping key whose value was processed to the end
\* before the failing marker mapping holds the transformed value, and the
\* failing marker mapping and every key after it hold their original values.
C10_NoRollback ==
    (pass = "kms" /\ raised = "FiggypyError") =>
        LET q == calls[Len(calls)].path
        IN  \A r \in Reached(input, "_kms") :
                IsKeyValue(input, r) =>
                    /\ (Before(r, q) /\ ~IsPrefix(r, q)) =>
                           At(cfg, r) = Transformed(At(input, r), r)
                    /\ (r = q \/ Before(q, r)) => At(cfg, r) = At(input, r)

\* An aborted pass that left a decrypted value in the caller's tree, before
\* a failing marker mapping that is itself the value of a key.
C10_Witness ==
    /\ pass = "kms"
    /\ raised = "FiggypyError"
    /\ cfg # input
    /\ LET q == calls[Len(calls)].path
       IN  /\ IsKeyValue(input, q)
           /\ At(cfg, q) = At(input, q)
           /\ \E r \in Reached(input, "_kms") :
                  /\ IsKeyValue(input, r)
                  /\ Before(r, q)
                  /\ At(input, r) # HUNTER2
                  /\ At(cfg, r) = HUNTER2

=============================================================================
